---- MODULE Spec2Model ----
(***************************************************************************)
(* Vaccination card API (src/main.py): tables people, vaccines and         *)
(* vaccinations, the handlers that change them, the dose validators and    *)
(* the two card views.                                                     *)
(*                                                                         *)
(* A handler that only writes once is one action.  create_vaccination     *)
(* reads the database several times before it writes, and the SELECTs of   *)
(* a session run outside any transaction, so each of its queries is a      *)
(* step of its own and other requests may run between two of them.         *)
(* Inputs of a request are chosen at the step that first reads them.       *)
(***************************************************************************)
EXTENDS Integers, Sequences, FiniteSets, TLC

None == "None"

Range(s) == {s[i] : i \in 1..Len(s)}

----------------------------------------------------------------------------
(* Bounds of the model *)

\* the primary keys are uuid4 strings, drawn here from these lists: at most
\* two people and two vaccines exist at once, and MaxRecords dose records
PERSON_UUIDS == <<"p1", "p2">>
VACCINE_UUIDS == <<"v1", "v2">>
RECORD_UUIDS == <<"x1", "x2", "x3", "x4">>

MaxRecords == 2

PersonIds == Range(PERSON_UUIDS)
VaccineIds == Range(VACCINE_UUIDS)
RecordIds == {RECORD_UUIDS[i] : i \in 1..MaxRecords}

\* concurrent POST /vaccinations requests
Reqs == {"r1", "r2"}

----------------------------------------------------------------------------
(* Domain *)

DoseEnum == {"D1", "D2", "D3", "R1", "R2"}

GenderEnum == {"M", "F", "O"}

DOSE_ORDER == <<"D1", "D2", "D3", "R1", "R2">>

\* 0-based, as enumerate() gives it
ORDER_INDEX(d) == (CHOOSE i \in 1..Len(DOSE_ORDER) : DOSE_ORDER[i] = d) - 1

\* display names, in ascending string order
NAMES == <<"BCG", "Hepatite B">>

NameRank(n) == CHOOSE i \in 1..Len(NAMES) : NAMES[i] = n

\* json.dumps of a list of strings: a JSON array text
json_dumps(list) == [json |-> "array", items |-> list]

\* json.loads: an array text gives a list, the text null gives None, a text
\* that is not JSON raises; a value is given with its Python type
json_loads(text) ==
    IF text.json = "array"
    THEN [ok |-> TRUE, type |-> "list", value |-> text.items]
    ELSE IF text.json = "null"
    THEN [ok |-> TRUE, type |-> "NoneType", value |-> <<>>]
    ELSE [ok |-> FALSE, type |-> "JSONDecodeError", value |-> <<>>]

\* Vaccine.allowed_list: what json.loads returns, DOSE_ORDER only when it raises
allowed_list(v) ==
    LET r == json_loads(v.allowed_doses)
    IN IF r.ok THEN [type |-> r.type, value |-> r.value]
       ELSE [type |-> "list", value |-> DOSE_ORDER]

----------------------------------------------------------------------------
(* Request bodies: a JSON object is a record, an absent key an absent field *)

VaccineIn1 == [name |-> "Hepatite B", code |-> "hepb", allowed_doses |-> <<"D1", "D2", "R1">>]
VaccineIn2 == [name |-> "BCG", code |-> "bcg"]
VaccineIn3 == [name |-> "BCG", code |-> "hepb", allowed_doses |-> <<>>]

PersonIn1 == [name |-> "Ana Paula", document |-> "123", sex |-> "F", age |-> 30]
PersonIn2 == [name |-> "Joao", document |-> "456", sex |-> "M", age |-> 5]
PersonIn3 == [name |-> "Ana Paula", document |-> "123"]

\* applied_at as a day number, lot and location optional
Details1 == [applied_at |-> 10, lot |-> None, location |-> None]
Details2 == [applied_at |-> 11, lot |-> "L1", location |-> "UBS"]

----------------------------------------------------------------------------
(* State *)

VARIABLES
    people,        \* rows of table people
    vaccines,      \* rows of table vaccines
    vaccinations,  \* rows of table vaccinations
    req,           \* the POST /vaccinations requests in flight
    resp           \* the response the last step sent, NoResp if it sent none

vars == <<people, vaccines, vaccinations, req, resp>>

NoResp == [op |-> "none"]

\* enforce_sequence: bool = Query(True)
IdleReq == [pc |-> "idle", person_id |-> None, vaccine_id |-> None,
            dose |-> None, enforce_sequence |-> TRUE]

Init ==
    /\ people = {}
    /\ vaccines = {}
    /\ vaccinations = {}
    /\ req = [r \in Reqs |-> IdleReq]
    /\ resp = NoResp

HTTPException(op, request, status, detail) ==
    [op |-> op, request |-> request, status |-> status, detail |-> detail]

Response(op, request, status, body) ==
    [op |-> op, request |-> request, status |-> status, body |-> body]

\* db.get(Model, id): the rows with that primary key, none or one
get(table, id) == {row \in table : row.id = id}

Min(S) == CHOOSE x \in S : \A y \in S : x <= y

\* uuid4: an id no row has and no request in flight holds
FreshPersonIds ==
    {i \in PersonIds : /\ \A p \in people : p.id # i
                       /\ \A r \in Reqs : req[r].person_id # i}

FreshVaccineIds ==
    {i \in VaccineIds : /\ \A v \in vaccines : v.id # i
                        /\ \A r \in Reqs : req[r].vaccine_id # i}

FreshRecordIds == {i \in RecordIds : \A x \in vaccinations : x.id # i}

\* the first fresh id of the list
uuid4(fresh, uuids) == uuids[Min({i \in 1..Len(uuids) : uuids[i] \in fresh})]

----------------------------------------------------------------------------
(* Helpers *)

\* the check made against the vocabulary instead of the vaccine's list
ensure_dose_allowed_any(vac, dose) == dose \in Range(DOSE_ORDER)

\* ensure_dose_allowed: TRUE when it returns, FALSE when it raises 422
ensure_dose_allowed(vac, dose) == dose \in Range(allowed_list(vac).value)

\* dose.value not in vac.allowed_list(): "in" raises TypeError on a value
\* that is not a container
TypeError(vac) == allowed_list(vac).type # "list"

\* the history query filtered by vaccine only, not by person
ensure_dose_order_any_person(person_id, vaccine_id, dose) ==
    LET idx == ORDER_INDEX(dose)
        prev == SubSeq(DOSE_ORDER, 1, idx)
        existing == {x.dose : x \in {y \in vaccinations : y.vaccine_id = vaccine_id}}
        missing == {i \in 1..idx : prev[i] \notin existing}
    IN IF idx = 0 THEN None
       ELSE IF missing = {} THEN None
       ELSE prev[Min(missing)]

\* the prior doses taken from the vaccine's allowed list, not from DOSE_ORDER
ensure_dose_order_allowed_subset(person_id, vaccine_id, dose) ==
    LET idx == ORDER_INDEX(dose)
        prev == SubSeq(DOSE_ORDER, 1, idx)
        allowed == UNION {Range(allowed_list(v).value) : v \in get(vaccines, vaccine_id)}
        existing == {x.dose : x \in {y \in vaccinations :
                        y.person_id = person_id /\ y.vaccine_id = vaccine_id}}
        missing == {i \in 1..idx : prev[i] \in allowed /\ prev[i] \notin existing}
    IN IF idx = 0 THEN None
       ELSE IF missing = {} THEN None
       ELSE prev[Min(missing)]

\* prev one label short: DOSE_ORDER[:idx - 1]
ensure_dose_order_off_by_one(person_id, vaccine_id, dose) ==
    LET idx == ORDER_INDEX(dose)
        prev == SubSeq(DOSE_ORDER, 1, idx - 1)
        existing == {x.dose : x \in {y \in vaccinations :
                        y.person_id = person_id /\ y.vaccine_id = vaccine_id}}
        missing == {i \in 1..(idx - 1) : prev[i] \notin existing}
    IN IF idx = 0 THEN None
       ELSE IF missing = {} THEN None
       ELSE prev[Min(missing)]

\* ensure_dose_order: None when it returns, else the dose d of
\* "Ordem invalida: dose requer d previamente" (409)
ensure_dose_order(person_id, vaccine_id, dose) ==
    LET idx == ORDER_INDEX(dose)
        prev == SubSeq(DOSE_ORDER, 1, idx)
        existing == {x.dose : x \in {y \in vaccinations :
                        y.person_id = person_id /\ y.vaccine_id = vaccine_id}}
        missing == {i \in 1..idx : prev[i] \notin existing}
    IN IF idx = 0 THEN None
       ELSE IF missing = {} THEN None
       ELSE prev[Min(missing)]

\* the duplicate query left out
dup_never(person_id, vaccine_id, dose) == FALSE

\* the duplicate query of create_vaccination: TRUE when a row is found
dup(person_id, vaccine_id, dose) ==
    \E x \in vaccinations :
        x.person_id = person_id /\ x.vaccine_id = vaccine_id /\ x.dose = dose

\* the table created without its unique constraint
uq_dropped(rec) == TRUE

\* UniqueConstraint uq_person_vaccine_dose: TRUE when row rec may be inserted
uq_person_vaccine_dose(rec) ==
    \A x \in vaccinations :
        ~(x.person_id = rec.person_id /\ x.vaccine_id = rec.vaccine_id
          /\ x.dose = rec.dose)

\* the foreign keys of vaccinations (PRAGMA foreign_keys=ON)
foreign_keys(rec) ==
    /\ \E p \in people : p.id = rec.person_id
    /\ \E v \in vaccines : v.id = rec.vaccine_id

\* a person deleted without the cascade
cascade_person_none(pid) == vaccinations

\* ON DELETE CASCADE / cascade="all, delete-orphan" of Person.vaccinations
cascade_person(pid) == {x \in vaccinations : x.person_id # pid}

\* a vaccine deleted without the cascade
cascade_vaccine_none(vid) == vaccinations

\* the same for Vaccine.vaccinations
cascade_vaccine(vid) == {x \in vaccinations : x.vaccine_id # vid}

----------------------------------------------------------------------------
(* POST /vaccinations *)

\* what a request has read of its payload and query string so far
Request(r) == [person_id |-> req[r].person_id, vaccine_id |-> req[r].vaccine_id,
               dose |-> req[r].dose, enforce_sequence |-> req[r].enforce_sequence]

Finish(r, response) ==
    /\ req' = [req EXCEPT ![r] = IdleReq]
    /\ resp' = response

\* p = db.get(Person, payload.person_id)
cv_get_person(r, pid) ==
    /\ req[r].pc = "idle"
    /\ IF get(people, pid) = {}
       THEN Finish(r, HTTPException("create_vaccination",
                [person_id |-> pid], 404, "Pessoa nao encontrada"))
       ELSE /\ req' = [req EXCEPT ![r].pc = "vaccine", ![r].person_id = pid]
            /\ resp' = NoResp
    /\ UNCHANGED <<people, vaccines, vaccinations>>

\* v = db.get(Vaccine, payload.vaccine_id); ensure_dose_allowed(v, payload.dose)
cv_get_vaccine(r, vid, dose) ==
    /\ req[r].pc = "vaccine"
    /\ LET v == get(vaccines, vid)
           rq == [person_id |-> req[r].person_id, vaccine_id |-> vid, dose |-> dose]
       IN IF v = {}
          THEN Finish(r, HTTPException("create_vaccination", rq, 404, "Vacina nao encontrada"))
          ELSE IF \E vac \in v : TypeError(vac)
          THEN Finish(r, HTTPException("create_vaccination", rq, 500, "TypeError"))
          ELSE IF \E vac \in v : ~ensure_dose_allowed(vac, dose)
          THEN Finish(r, HTTPException("create_vaccination", rq, 422, "Dose nao permitida"))
          ELSE /\ req' = [req EXCEPT ![r].pc = "order", ![r].vaccine_id = vid,
                                     ![r].dose = dose]
               /\ resp' = NoResp
    /\ UNCHANGED <<people, vaccines, vaccinations>>

\* the duplicate query made before the sequence check
cv_dup_before_order(r, enforce_sequence) ==
    /\ req[r].pc = "order"
    /\ LET d == ensure_dose_order(req[r].person_id, req[r].vaccine_id, req[r].dose)
           rq == [Request(r) EXCEPT !.enforce_sequence = enforce_sequence]
       IN IF dup(req[r].person_id, req[r].vaccine_id, req[r].dose)
          THEN Finish(r, HTTPException("create_vaccination", rq, 409, "Dose ja registrada"))
          ELSE IF enforce_sequence /\ d # None
          THEN Finish(r, [op |-> "create_vaccination", request |-> rq, status |-> 409,
                          detail |-> "Ordem invalida", requires |-> d])
          ELSE /\ req' = [req EXCEPT ![r].pc = "dup",
                                     ![r].enforce_sequence = enforce_sequence]
               /\ resp' = NoResp
    /\ UNCHANGED <<people, vaccines, vaccinations>>

\* the sequence check made whatever enforce_sequence is
cv_order_always(r, enforce_sequence) ==
    /\ req[r].pc = "order"
    /\ LET d == ensure_dose_order(req[r].person_id, req[r].vaccine_id, req[r].dose)
           rq == [Request(r) EXCEPT !.enforce_sequence = enforce_sequence]
       IN IF d # None
          THEN Finish(r, [op |-> "create_vaccination", request |-> rq, status |-> 409,
                          detail |-> "Ordem invalida", requires |-> d])
          ELSE /\ req' = [req EXCEPT ![r].pc = "dup",
                                     ![r].enforce_sequence = enforce_sequence]
               /\ resp' = NoResp
    /\ UNCHANGED <<people, vaccines, vaccinations>>

\* the record added and committed before the sequence check rejects it
cv_order_stores_rejected(r, enforce_sequence) ==
    /\ req[r].pc = "order"
    /\ LET d == ensure_dose_order(req[r].person_id, req[r].vaccine_id, req[r].dose)
           rq == [Request(r) EXCEPT !.enforce_sequence = enforce_sequence]
           rec == [id |-> uuid4(FreshRecordIds, RECORD_UUIDS),
                   person_id |-> req[r].person_id,
                   vaccine_id |-> req[r].vaccine_id,
                   dose |-> req[r].dose,
                   applied_at |-> Details1.applied_at,
                   lot |-> Details1.lot,
                   location |-> Details1.location]
       IN IF enforce_sequence /\ d # None
          THEN /\ Finish(r, [op |-> "create_vaccination", request |-> rq, status |-> 409,
                             detail |-> "Ordem invalida", requires |-> d])
               /\ vaccinations' = IF FreshRecordIds = {} THEN vaccinations
                                  ELSE vaccinations \cup {rec}
          ELSE /\ req' = [req EXCEPT ![r].pc = "dup",
                                     ![r].enforce_sequence = enforce_sequence]
               /\ resp' = NoResp
               /\ vaccinations' = vaccinations
    /\ UNCHANGED <<people, vaccines>>

\* if enforce_sequence: ensure_dose_order(...)
cv_order(r, enforce_sequence) ==
    /\ req[r].pc = "order"
    /\ LET d == ensure_dose_order(req[r].person_id, req[r].vaccine_id, req[r].dose)
           rq == [Request(r) EXCEPT !.enforce_sequence = enforce_sequence]
       IN IF enforce_sequence /\ d # None
          THEN Finish(r, [op |-> "create_vaccination", request |-> rq, status |-> 409,
                          detail |-> "Ordem invalida", requires |-> d])
          ELSE /\ req' = [req EXCEPT ![r].pc = "dup",
                                     ![r].enforce_sequence = enforce_sequence]
               /\ resp' = NoResp
    /\ UNCHANGED <<people, vaccines, vaccinations>>

\* dup = db.query(Vaccination).filter_by(...).first()
cv_dup(r) ==
    /\ req[r].pc = "dup"
    /\ IF dup(req[r].person_id, req[r].vaccine_id, req[r].dose)
       THEN Finish(r, HTTPException("create_vaccination", Request(r), 409, "Dose ja registrada"))
       ELSE /\ req' = [req EXCEPT ![r].pc = "insert"]
            /\ resp' = NoResp
    /\ UNCHANGED <<people, vaccines, vaccinations>>

\* the INSERT replacing the records the person has of the vaccine
cv_insert_replace(r, details) ==
    /\ req[r].pc = "insert"
    /\ FreshRecordIds # {}
    /\ LET rec == [id |-> uuid4(FreshRecordIds, RECORD_UUIDS),
                   person_id |-> req[r].person_id,
                   vaccine_id |-> req[r].vaccine_id,
                   dose |-> req[r].dose,
                   applied_at |-> details.applied_at,
                   lot |-> details.lot,
                   location |-> details.location]
       IN IF uq_person_vaccine_dose(rec) /\ foreign_keys(rec)
          THEN /\ vaccinations' =
                     {x \in vaccinations : ~(x.person_id = rec.person_id
                                              /\ x.vaccine_id = rec.vaccine_id)} \cup {rec}
               /\ Finish(r, Response("create_vaccination", Request(r), 201, rec))
          ELSE /\ vaccinations' = vaccinations
               /\ Finish(r, HTTPException("create_vaccination", Request(r), 500, "IntegrityError"))
    /\ UNCHANGED <<people, vaccines>>

\* db.add(rec); db.commit(): the INSERT, which the constraints may refuse
cv_insert(r, details) ==
    /\ req[r].pc = "insert"
    /\ FreshRecordIds # {}
    /\ LET rec == [id |-> uuid4(FreshRecordIds, RECORD_UUIDS),
                   person_id |-> req[r].person_id,
                   vaccine_id |-> req[r].vaccine_id,
                   dose |-> req[r].dose,
                   applied_at |-> details.applied_at,
                   lot |-> details.lot,
                   location |-> details.location]
       IN IF uq_person_vaccine_dose(rec) /\ foreign_keys(rec)
          THEN /\ vaccinations' = vaccinations \cup {rec}
               /\ Finish(r, Response("create_vaccination", Request(r), 201, rec))
          ELSE /\ vaccinations' = vaccinations
               /\ Finish(r, HTTPException("create_vaccination", Request(r), 500, "IntegrityError"))
    /\ UNCHANGED <<people, vaccines>>

\* DELETE /vaccinations/{rid}
delete_vaccination(rid) ==
    /\ IF get(vaccinations, rid) = {}
       THEN /\ resp' = HTTPException("delete_vaccination", rid, 404, "Registro nao encontrado")
            /\ vaccinations' = vaccinations
       ELSE /\ vaccinations' = vaccinations \ get(vaccinations, rid)
            /\ resp' = Response("delete_vaccination", rid, 204, None)
    /\ UNCHANGED <<people, vaccines, req>>

----------------------------------------------------------------------------
(* /vaccines and /people *)

\* the row inserted without the query for its code
create_vaccine_unchecked(payload) ==
    /\ FreshVaccineIds # {}
    /\ LET allowed == IF "allowed_doses" \notin DOMAIN payload
                      THEN DOSE_ORDER
                      ELSE IF payload.allowed_doses = <<>>
                      THEN DOSE_ORDER
                      ELSE payload.allowed_doses
           v == [id |-> uuid4(FreshVaccineIds, VACCINE_UUIDS), name |-> payload.name,
                 code |-> payload.code, allowed_doses |-> json_dumps(allowed)]
       IN /\ vaccines' = vaccines \cup {v}
          /\ resp' = Response("create_vaccine", payload, 201,
                        [id |-> v.id, name |-> v.name, code |-> v.code,
                         allowed_doses |-> allowed_list(v).value])
    /\ UNCHANGED <<people, vaccinations, req>>

\* POST /vaccines
create_vaccine(payload) ==
    /\ FreshVaccineIds # {}
    /\ IF \E v \in vaccines : v.code = payload.code
       THEN /\ resp' = HTTPException("create_vaccine", payload, 409, "code ja existe")
            /\ vaccines' = vaccines
       ELSE LET \* payload.allowed_doses or DOSE_ORDER: None and [] are both falsy
                allowed == IF "allowed_doses" \notin DOMAIN payload
                           THEN DOSE_ORDER
                           ELSE IF payload.allowed_doses = <<>>
                           THEN DOSE_ORDER
                           ELSE payload.allowed_doses
                v == [id |-> uuid4(FreshVaccineIds, VACCINE_UUIDS), name |-> payload.name,
                      code |-> payload.code, allowed_doses |-> json_dumps(allowed)]
            IN /\ vaccines' = vaccines \cup {v}
               /\ resp' = Response("create_vaccine", payload, 201,
                             [id |-> v.id, name |-> v.name, code |-> v.code,
                              allowed_doses |-> allowed_list(v).value])
    /\ UNCHANGED <<people, vaccinations, req>>

\* DELETE /vaccines/{vid}
delete_vaccine(vid) ==
    /\ IF get(vaccines, vid) = {}
       THEN /\ resp' = HTTPException("delete_vaccine", vid, 404, "Vacina nao encontrada")
            /\ UNCHANGED <<vaccines, vaccinations>>
       ELSE /\ vaccines' = vaccines \ get(vaccines, vid)
            /\ vaccinations' = cascade_vaccine(vid)
            /\ resp' = Response("delete_vaccine", vid, 204, None)
    /\ UNCHANGED <<people, req>>

\* PersonIn: sex and age are required fields, age in 0..130
PersonIn(payload) ==
    /\ {"name", "document", "sex", "age"} \subseteq DOMAIN payload
    /\ payload.sex \in GenderEnum
    /\ payload.age >= 0 /\ payload.age <= 130

\* POST /people
create_person(payload) ==
    /\ FreshPersonIds # {}
    /\ IF ~PersonIn(payload)
       THEN /\ resp' = HTTPException("create_person", payload, 422, "validation error")
            /\ people' = people
       ELSE IF \E p \in people : p.document = payload.document
       THEN /\ resp' = HTTPException("create_person", payload, 409, "document ja existe")
            /\ people' = people
       ELSE LET p == [id |-> uuid4(FreshPersonIds, PERSON_UUIDS), name |-> payload.name,
                      document |-> payload.document, sex |-> payload.sex,
                      age |-> payload.age]
            IN /\ people' = people \cup {p}
               /\ resp' = Response("create_person", payload, 201, p)
    /\ UNCHANGED <<vaccines, vaccinations, req>>

\* DELETE /people/{pid}
delete_person(pid) ==
    /\ IF get(people, pid) = {}
       THEN /\ resp' = HTTPException("delete_person", pid, 404, "Pessoa nao encontrada")
            /\ UNCHANGED <<people, vaccinations>>
       ELSE /\ people' = people \ get(people, pid)
            /\ vaccinations' = cascade_person(pid)
            /\ resp' = Response("delete_person", pid, 204, None)
    /\ UNCHANGED <<vaccines, req>>

----------------------------------------------------------------------------
(* GET /people/{pid}/card *)

\* the orders in which a query with no order_by may return the rows of S
RECURSIVE Rows(_)
Rows(S) ==
    IF S = {} THEN {<<>>}
    ELSE UNION {{<<x>> \o q : q \in Rows(S \ {x})} : x \in S}

\* the records query without its order_by
order_by_applied_at_dropped(S) == Rows(S)

\* .order_by(Vaccination.applied_at): rows of equal date come in any order
RECURSIVE order_by_applied_at(_)
order_by_applied_at(S) ==
    IF S = {} THEN {<<>>}
    ELSE UNION {{<<x>> \o q : q \in order_by_applied_at(S \ {x})} :
                  x \in {y \in S : \A z \in S : y.applied_at <= z.applied_at}}

\* the vaccines query without its order_by
order_by_name_dropped(S) == Rows(S)

\* .order_by(Vaccine.name): rows of equal name come in any order
RECURSIVE order_by_name(_)
order_by_name(S) ==
    IF S = {} THEN {<<>>}
    ELSE UNION {{<<x>> \o q : q \in order_by_name(S \ {x})} :
                  x \in {y \in S : \A z \in S : NameRank(y.name) <= NameRank(z.name)}}

PersonOut(p) ==
    [id |-> p.id, name |-> p.name, document |-> p.document, sex |-> p.sex, age |-> p.age]

CardEntry(x) ==
    [record_id |-> x.id, dose |-> x.dose, applied_at |-> x.applied_at,
     lot |-> x.lot, location |-> x.location]

MatrixCol(v) == [vaccine_id |-> v.id, vaccine_name |-> v.name]

MatrixCell(x) == [record_id |-> x.id, applied_at |-> x.applied_at, dose |-> x.dose]

\* the keys of bucket, a dict: the vaccine ids of q in order of first occurrence
RECURSIVE bucket_keys(_)
bucket_keys(q) ==
    IF q = <<>> THEN <<>>
    ELSE <<Head(q).vaccine_id>>
         \o SelectSeq(bucket_keys(Tail(q)), LAMBDA k : k # Head(q).vaccine_id)

\* every row appended to every bucket
bucket_all(q, vid) == q

\* bucket[vid]: the rows of q of vaccine vid, in the order of q
bucket(q, vid) == SelectSeq(q, LAMBDA x : x.vaccine_id = vid)

\* format == "list", q the rows the query of the person's records returned
CardListOut(p, q) ==
    LET keys == bucket_keys(q)
        recs(vid) == bucket(q, vid)
        name(vid) == IF get(vaccines, vid) = {} THEN vid
                     ELSE (CHOOSE v \in get(vaccines, vid) : TRUE).name
    IN [person |-> PersonOut(p),
        vaccines |-> [b \in 1..Len(keys) |->
            [vaccine_id |-> keys[b],
             vaccine_name |-> name(keys[b]),
             entries |-> [e \in 1..Len(recs(keys[b])) |-> CardEntry(recs(keys[b])[e])]]]]

\* the dict keyed by dose alone
by_key_dose_only(q, d, vid) ==
    LET hits == {i \in 1..Len(q) : q[i].dose = d}
    IN IF hits = {} THEN {}
       ELSE {q[CHOOSE i \in hits : \A j \in hits : j <= i]}

\* by_key.get((d, vid)): the dict keeps the last row of q with that key;
\* the Optional cell is a set, empty for None
by_key(q, d, vid) ==
    LET hits == {i \in 1..Len(q) : q[i].dose = d /\ q[i].vaccine_id = vid}
    IN IF hits = {} THEN {}
       ELSE {q[CHOOSE i \in hits : \A j \in hits : j <= i]}

\* format == "matrix", vs the rows of the vaccines query, q those of the records query
CardMatrixOut(vs, q) ==
    [rows |-> DOSE_ORDER,
     cols |-> [c \in 1..Len(vs) |-> MatrixCol(vs[c])],
     grid |-> [r \in 1..Len(DOSE_ORDER) |-> [c \in 1..Len(vs) |->
                 {MatrixCell(x) : x \in by_key(q, DOSE_ORDER[r], vs[c].id)}]]]

get_card(pid, format) ==
    /\ LET rq == [pid |-> pid, format |-> format]
           mine == {x \in vaccinations : x.person_id = pid}
       IN IF get(people, pid) = {}
          THEN resp' = HTTPException("get_card", rq, 404, "Pessoa nao encontrada")
          ELSE IF format = "list"
          THEN \E p \in get(people, pid), q \in order_by_applied_at(mine) :
                  resp' = Response("get_card", rq, 200, CardListOut(p, q))
          ELSE \E vs \in order_by_name(vaccines), q \in Rows(mine) :
                  resp' = Response("get_card", rq, 200, CardMatrixOut(vs, q))
    /\ UNCHANGED <<people, vaccines, vaccinations, req>>

----------------------------------------------------------------------------
(* GET /vaccines *)

VaccineOut(v) ==
    [id |-> v.id, name |-> v.name, code |-> v.code, allowed_doses |-> allowed_list(v).value]

\* VaccineOut.from_model: [DoseEnum(d) for d in v.allowed_list()] raises
\* TypeError on None and ValueError on a string that is no label
from_model_raises(v) ==
    TypeError(v) \/ ~(Range(allowed_list(v).value) \subseteq DoseEnum)

list_vaccines ==
    /\ IF \E v \in vaccines : from_model_raises(v)
       THEN resp' = HTTPException("list_vaccines", None, 500,
                        IF \E v \in vaccines : TypeError(v) THEN "TypeError" ELSE "ValueError")
       ELSE \E vs \in Rows(vaccines) :
               resp' = Response("list_vaccines", None, 200,
                                [i \in 1..Len(vs) |-> VaccineOut(vs[i])])
    /\ UNCHANGED <<people, vaccines, vaccinations, req>>

----------------------------------------------------------------------------
(* Specification *)

\* the requests clients send: R the POST /vaccinations requests that run
\* concurrently, P, V and X the ids they name, D, E and DT the dose,
\* enforce_sequence and the other columns they submit, VIN and PIN the
\* bodies of POST /vaccines and POST /people
NextOn(R, P, V, X, D, E, DT, VIN, PIN) ==
    \/ \E r \in R, pid \in P : cv_get_person(r, pid)
    \/ \E r \in R, vid \in V, dose \in D : cv_get_vaccine(r, vid, dose)
    \/ \E r \in R, e \in E : cv_order(r, e)
    \/ \E r \in R : cv_dup(r)
    \/ \E r \in R, details \in DT : cv_insert(r, details)
    \/ \E rid \in X : delete_vaccination(rid)
    \/ \E payload \in VIN : create_vaccine(payload)
    \/ \E vid \in V : delete_vaccine(vid)
    \/ \E payload \in PIN : create_person(payload)
    \/ \E pid \in P : delete_person(pid)

\* one client at a time submits doses; every other request may run between
\* two queries of a submission
Next ==
    NextOn({"r1"}, PersonIds, VaccineIds, RecordIds, {"D1", "D2", "D3"}, BOOLEAN,
           {Details1}, {VaccineIn1, VaccineIn2}, {PersonIn1, PersonIn2})

Spec == Init /\ [][Next]_vars

\* two submissions race
NextRace ==
    NextOn(Reqs, {"p1"}, {"v1"}, RecordIds, {"D1", "D2"}, BOOLEAN,
           {Details1}, {VaccineIn2}, {PersonIn1})

SpecRace == Init /\ [][NextRace]_vars

\* the card views of what was submitted, asked for between two submissions
NextCard ==
    \/ NextOn({"r1"}, PersonIds, VaccineIds, RecordIds, {"D1", "D2"}, {FALSE},
              {Details1}, {VaccineIn1, VaccineIn2}, {PersonIn1, PersonIn2})
    \/ /\ \A r \in Reqs : req[r].pc = "idle"
       /\ \E pid \in PersonIds, format \in {"list", "matrix"} : get_card(pid, format)

SpecCard == Init /\ [][NextCard]_vars

\* the card of one person whose doses are submitted with different dates
NextCardDates ==
    \/ NextOn({"r1"}, {"p1"}, VaccineIds, RecordIds, {"D1", "D2"}, {FALSE},
              {Details1, Details2}, {VaccineIn1, VaccineIn2}, {PersonIn1})
    \/ /\ \A r \in Reqs : req[r].pc = "idle"
       /\ \E format \in {"list", "matrix"} : get_card("p1", format)

SpecCardDates == Init /\ [][NextCardDates]_vars

\* the catalog and the people register, bodies with and without their
\* optional fields
NextCatalog ==
    \/ NextOn({"r1"}, PersonIds, VaccineIds, RecordIds, {"D1"}, BOOLEAN,
              {Details1}, {VaccineIn1, VaccineIn2, VaccineIn3},
              {PersonIn1, PersonIn2, PersonIn3})
    \/ list_vaccines

SpecCatalog == Init /\ [][NextCatalog]_vars

\* a vaccine allowed D1, D2 and R1, and one allowed every label
NextSkip ==
    NextOn({"r1"}, {"p1"}, VaccineIds, RecordIds, {"D1", "D2", "D3", "R1"}, BOOLEAN,
           {Details1}, {VaccineIn1, VaccineIn2}, {PersonIn1})

SpecSkip == Init /\ [][NextSkip]_vars

\* every submission leaves enforce_sequence at its default, two submissions
\* may run concurrently, and no single dose record is deleted
NextEnforced ==
    \/ \E r \in Reqs, pid \in PersonIds : cv_get_person(r, pid)
    \/ \E r \in Reqs, vid \in {"v1"}, dose \in {"D1", "D2", "D3"} : cv_get_vaccine(r, vid, dose)
    \/ \E r \in Reqs : cv_order(r, TRUE)
    \/ \E r \in Reqs : cv_dup(r)
    \/ \E r \in Reqs : cv_insert(r, Details1)
    \/ create_vaccine(VaccineIn2)
    \/ delete_vaccine("v1")
    \/ \E payload \in {PersonIn1, PersonIn2} : create_person(payload)
    \/ \E pid \in PersonIds : delete_person(pid)

SpecEnforced == Init /\ [][NextEnforced]_vars

\* texts column allowed_doses may hold when the row was not written by
\* create_vaccine: an array of labels, a text that is not JSON, the JSON
\* null, an array with a string that is no label
StoredTexts ==
    {json_dumps(<<"D1", "D2">>),
     [json |-> "invalid", items |-> <<>>],
     [json |-> "null", items |-> <<>>],
     json_dumps(<<"D1", "X9">>)}

\* the database file holds one such row when the application starts
InitStored ==
    /\ people = {}
    /\ \E text \in StoredTexts :
          vaccines = {[id |-> "v1", name |-> "BCG", code |-> "bcg", allowed_doses |-> text]}
    /\ vaccinations = {}
    /\ req = [r \in Reqs |-> IdleReq]
    /\ resp = NoResp

NextStored ==
    \/ NextOn({"r1"}, {"p1"}, VaccineIds, RecordIds, {"D1", "D3"}, BOOLEAN,
              {Details1}, {VaccineIn1}, {PersonIn1})
    \/ list_vaccines

SpecStored == InitStored /\ [][NextStored]_vars

----------------------------------------------------------------------------
(* Claims *)

SameTriple(x, y) ==
    x.person_id = y.person_id /\ x.vaccine_id = y.vaccine_id /\ x.dose = y.dose

\* C1: no two stored dose records share (person, vaccine, dose label), also
\* when two submissions both pass the duplicate pre-check before either inserts
C1_UniqueTriple ==
    \A x, y \in vaccinations : SameTriple(x, y) => x = y

\* a request has passed the pre-check and the other has since inserted its triple
C1_Witness ==
    \E r \in Reqs : req[r].pc = "insert" /\ \E x \in vaccinations : SameTriple(x, req[r])

\* C7: the submission whose insert hits the uniqueness constraint is answered
\* with a conflict (409), as a duplicate found by the pre-check is
C7_RaceLoserGetsConflict ==
    (/\ resp.op = "create_vaccination"
     /\ resp.status \notin {201, 404, 422}
     /\ \E x \in vaccinations : SameTriple(x, resp.request))
    => resp.status = 409

\* the doses that precede dose in the global order
Prior(dose) == {DOSE_ORDER[k] : k \in 1..ORDER_INDEX(dose)}

\* the doses on file for a person and a vaccine
OnFile(person_id, vaccine_id) ==
    {x.dose : x \in {y \in vaccinations :
                        y.person_id = person_id /\ y.vaccine_id = vaccine_id}}

\* the allowed set a vaccine is configured with: the labels of its stored list
Configured(v) == Range(v.allowed_doses.items)

\* the response the step sends is that of a rejected submission
Rejects(status, detail) ==
    /\ resp'.op = "create_vaccination"
    /\ resp'.status = status
    /\ resp'.status # 201
    /\ resp'.detail = detail

\* request r takes the step
Steps(r) == req'[r] # req[r] \/ (req[r].pc = "idle" /\ resp'.op = "create_vaccination")

\* C2: a submission with enforce_sequence=true passes the sequence gate, which
\* every accepted submission has passed, only if at that moment every label
\* before the candidate in the global order is on file for the same person
\* and the same vaccine
C2_PriorDosesOnFile ==
    [][/\ \A r \in Reqs :
            /\ (req[r].pc = "order" /\ req'[r].pc = "dup" /\ req'[r].enforce_sequence)
                 => Prior(req[r].dose) \subseteq OnFile(req[r].person_id, req[r].vaccine_id)
            /\ (req'[r] # req[r] /\ req'[r].pc = "dup")
                 => req' = [req EXCEPT ![r].pc = "dup",
                                       ![r].enforce_sequence = req'[r].enforce_sequence]
                    /\ req[r].pc = "order"
            /\ (req'[r] # req[r] /\ req'[r].pc = "insert")
                 => req' = [req EXCEPT ![r].pc = "insert"] /\ req[r].pc = "dup"
       /\ (resp'.op = "create_vaccination" /\ resp'.status = 201)
            => \E r \in Reqs : req[r].pc = "insert" /\ Request(r) = resp'.request
                               /\ SameTriple(resp'.body, req[r])
      ]_vars

\* a second dose was accepted under enforce_sequence=true
C2_Witness ==
    /\ resp.op = "create_vaccination"
    /\ resp.status = 201
    /\ resp.request.enforce_sequence
    /\ resp.request.dose = "D2"

\* C3: for a person and a vaccine that exist, a submission is rejected with
\* 422 if and only if its dose is outside the vaccine's configured allowed set
C3_DoseNotAllowedIff ==
    /\ (resp.op = "create_vaccination" /\ "vaccine_id" \in DOMAIN resp.request)
         => \A v \in get(vaccines, resp.request.vaccine_id) :
               resp.status = 422 <=> resp.request.dose \notin Configured(v)
    /\ \A r \in Reqs : req[r].pc \in {"order", "dup", "insert"}
         => \A v \in get(vaccines, req[r].vaccine_id) : req[r].dose \in Configured(v)

\* a dose outside the allowed set is rejected although its prior doses are on file
C3_Witness ==
    /\ resp.op = "create_vaccination"
    /\ resp.status = 422
    /\ resp.request.dose = "D3"
    /\ OnFile(resp.request.person_id, resp.request.vaccine_id) = {"D1", "D2"}

\* C4: the gates are evaluated in the order person, vaccine, allowed dose,
\* sequence, duplicate: every rejection comes from the first gate that fails
C4_GateOrder ==
    [][/\ resp'.op = "create_vaccination"
            => \E r \in Reqs :
                 /\ req' = [req EXCEPT ![r] = IdleReq]
                 /\ IF resp'.status = 201 \/ resp'.status = 500
                    THEN req[r].pc = "insert"
                    ELSE IF resp'.detail = "Pessoa nao encontrada"
                    THEN req[r].pc = "idle" /\ resp'.status = 404
                         /\ get(people, resp'.request.person_id) = {}
                    ELSE IF resp'.detail = "Vacina nao encontrada"
                    THEN req[r].pc = "vaccine" /\ resp'.status = 404
                         /\ get(vaccines, resp'.request.vaccine_id) = {}
                    ELSE IF resp'.detail = "Dose nao permitida"
                    THEN req[r].pc = "vaccine" /\ resp'.status = 422
                         /\ \E v \in get(vaccines, resp'.request.vaccine_id) :
                               resp'.request.dose \notin Configured(v)
                    ELSE IF resp'.detail = "Ordem invalida"
                    THEN req[r].pc = "order" /\ resp'.status = 409
                         /\ resp'.request.enforce_sequence
                         /\ ~(Prior(req[r].dose) \subseteq
                                OnFile(req[r].person_id, req[r].vaccine_id))
                    ELSE /\ resp'.detail = "Dose ja registrada"
                         /\ req[r].pc = "dup" /\ resp'.status = 409
                         /\ \E x \in vaccinations : SameTriple(x, req[r])
       /\ \A r \in Reqs : req'[r].pc # "idle" /\ req'[r] # req[r] =>
            /\ <<req[r].pc, req'[r].pc>> \in {<<"idle", "vaccine">>, <<"vaccine", "order">>,
                                              <<"order", "dup">>, <<"dup", "insert">>}
            /\ resp' = NoResp
            /\ req'[r].pc = "vaccine" => get(people, req'[r].person_id) # {}
            /\ req'[r].pc = "order" =>
                 \E v \in get(vaccines, req'[r].vaccine_id) : req'[r].dose \in Configured(v)
            /\ req'[r].pc = "dup" =>
                 \/ ~req'[r].enforce_sequence
                 \/ Prior(req[r].dose) \subseteq OnFile(req[r].person_id, req[r].vaccine_id)
            /\ req'[r].pc = "insert" => ~\E x \in vaccinations : SameTriple(x, req[r])
      ]_vars

\* a candidate that duplicates a record and misses a prior dose is rejected
\* by the sequence gate
C4_Witness ==
    /\ resp.op = "create_vaccination"
    /\ resp.status = 409
    /\ resp.detail = "Ordem invalida"
    /\ \E x \in vaccinations : SameTriple(x, resp.request)

\* C5: the sequence gate rejects only under enforce_sequence=true, and then
\* names the first missing prior dose; with enforce_sequence=false a candidate
\* passes it whatever is on file, and an insert no constraint refuses is accepted
C5_EnforceSequenceFalse ==
    [][/\ Rejects(409, "Ordem invalida")
            => /\ resp'.request.enforce_sequence
               /\ resp'.requires \in Prior(resp'.request.dose)
               /\ resp'.requires \notin
                     OnFile(resp'.request.person_id, resp'.request.vaccine_id)
               /\ \A d \in Prior(resp'.requires) :
                     d \in OnFile(resp'.request.person_id, resp'.request.vaccine_id)
       /\ \A r \in Reqs :
            /\ (req[r].pc = "order" /\ Steps(r)
                /\ ~(Prior(req[r].dose) \subseteq OnFile(req[r].person_id, req[r].vaccine_id)))
                 => \/ Rejects(409, "Ordem invalida")
                    \/ req'[r].pc = "dup" /\ ~req'[r].enforce_sequence
            /\ (req[r].pc = "insert" /\ Steps(r)
                /\ uq_person_vaccine_dose(req[r]) /\ foreign_keys(req[r]))
                 => /\ resp'.status = 201
                    /\ SameTriple(resp'.body, req[r])
                    /\ resp'.body \notin vaccinations
                    /\ vaccinations' = vaccinations \cup {resp'.body}
      ]_vars

\* a second dose was accepted under enforce_sequence=false with no first dose on file
C5_Witness ==
    /\ resp.op = "create_vaccination"
    /\ resp.status = 201
    /\ ~resp.request.enforce_sequence
    /\ resp.request.dose = "D2"
    /\ "D1" \notin OnFile(resp.request.person_id, resp.request.vaccine_id)

\* C6: a submission that reaches the duplicate gate while a record of its
\* (person, vaccine, dose) is stored is rejected with 409 and stores nothing,
\* whatever its date, lot and location; an accepted one adds a triple not yet stored
C6_DuplicateDose ==
    [][/\ \A r \in Reqs :
            (req[r].pc = "dup" /\ Steps(r) /\ \E x \in vaccinations : SameTriple(x, req[r]))
              => /\ Rejects(409, "Dose ja registrada")
                 /\ resp'.request = Request(r)
                 /\ vaccinations' = vaccinations
       /\ (resp'.op = "create_vaccination" /\ resp'.status = 201)
              => ~\E x \in vaccinations : SameTriple(x, resp'.body)
      ]_vars

\* the first dose was submitted again while on file
C6_Witness ==
    /\ resp.op = "create_vaccination"
    /\ resp.status = 409
    /\ resp.detail = "Dose ja registrada"
    /\ resp.request.dose = "D1"

\* C8: every stored dose record references a person and a vaccine that exist;
\* deleting a person or a vaccine removes the records that reference it and
\* no other record
C8_CascadeDelete ==
    [][/\ \A x \in vaccinations' : foreign_keys(x)'
       /\ (resp'.op = "delete_person" /\ resp'.status = 204)
            => /\ people' = {p \in people : p.id # resp'.request}
               /\ vaccinations' = {x \in vaccinations : x.person_id # resp'.request}
               /\ vaccines' = vaccines
       /\ (resp'.op = "delete_vaccine" /\ resp'.status = 204)
            => /\ vaccines' = {v \in vaccines : v.id # resp'.request}
               /\ vaccinations' = {x \in vaccinations : x.vaccine_id # resp'.request}
               /\ people' = people
      ]_vars

\* a person was deleted and another person's record is still stored
C8_Witness ==
    /\ resp.op = "delete_person"
    /\ resp.status = 204
    /\ vaccinations # {}

\* the response is the card of a person in the given format
Card(format) ==
    /\ resp.op = "get_card"
    /\ resp.status = 200
    /\ resp.request.format = format

\* the stored records of the person whose card the response is
Mine == {x \in vaccinations : x.person_id = resp.request.pid}

\* C9: the matrix has 5 rows and one column per vaccine of the catalog, and
\* cell [row][col] is non-empty iff the person has a record of that row's dose
\* and that column's vaccine; the cell then carries that record
C9_MatrixView ==
    Card("matrix") =>
        LET b == resp.body
        IN /\ Len(b.rows) = 5
           /\ Len(b.grid) = 5
           /\ Len(b.cols) = Cardinality(vaccines)
           /\ {b.cols[c].vaccine_id : c \in 1..Len(b.cols)} = {v.id : v \in vaccines}
           /\ \A r \in 1..Len(b.grid) :
                /\ Len(b.grid[r]) = Len(b.cols)
                /\ \A c \in 1..Len(b.cols) :
                     LET recs == {x \in Mine : /\ x.dose = b.rows[r]
                                               /\ x.vaccine_id = b.cols[c].vaccine_id}
                     IN /\ b.grid[r][c] # {} <=> recs # {}
                        /\ Cardinality(b.grid[r][c]) <= 1
                        /\ \A cell \in b.grid[r][c] : \E x \in recs :
                              /\ cell.record_id = x.id
                              /\ cell.dose = x.dose
                              /\ cell.applied_at = x.applied_at

\* a matrix of two columns with a filled cell, while another person has a record
C9_Witness ==
    /\ Card("matrix")
    /\ Len(resp.body.cols) = 2
    /\ \E r \in 1..5, c \in 1..2 : resp.body.grid[r][c] # {}
    /\ \E x \in vaccinations : x.person_id # resp.request.pid

\* C10: the entries of the blocks of the list are the person's stored records,
\* each once and in the block of its vaccine, and every block has an entry
C10_ListView ==
    Card("list") =>
        LET b == resp.body.vaccines
            at(x) == {<<i, e>> \in (1..Len(b)) \X (1..Cardinality(Mine)) :
                        e <= Len(b[i].entries) /\ b[i].entries[e].record_id = x.id}
        IN /\ \A i \in 1..Len(b) :
                /\ Len(b[i].entries) > 0
                /\ \A e \in 1..Len(b[i].entries) :
                     /\ e <= Cardinality(Mine)
                     /\ \E x \in Mine : /\ x.vaccine_id = b[i].vaccine_id
                                        /\ b[i].entries[e].record_id = x.id
                                        /\ b[i].entries[e].dose = x.dose
                                        /\ b[i].entries[e].applied_at = x.applied_at
                                        /\ b[i].entries[e].lot = x.lot
                                        /\ b[i].entries[e].location = x.location
           /\ \A x \in Mine : Cardinality(at(x)) = 1

\* a list of two blocks
C10_Witness ==
    /\ Card("list")
    /\ Len(resp.body.vaccines) = 2

\* the vaccine was created by POST /vaccines with that body
CreatedFrom(v, payload) == v.name = payload.name /\ v.code = payload.code

\* the allowed set the vaccine was configured with is empty
EmptyAllowed(v) == Configured(v) = {} \/ CreatedFrom(v, VaccineIn3)

\* C11: a vaccine configured with an empty allowed set, such as one created
\* by POST /vaccines with allowed_doses = [], has no dose record, and every
\* submission that names it with a dose is rejected with 422
C11_EmptyAllowedRejectsAll ==
    /\ \A x \in vaccinations : \A v \in get(vaccines, x.vaccine_id) : ~EmptyAllowed(v)
    /\ (resp.op = "create_vaccination" /\ "dose" \in DOMAIN resp.request)
         => \A v \in get(vaccines, resp.request.vaccine_id) :
               EmptyAllowed(v) => resp.status = 422

\* C17: POST /people with a name and a document no person has is answered
\* 201 and adds a person of that document; with a document in use it is
\* answered 409 and leaves the people unchanged; no two people share a document
C17_PersonDocumentUnique ==
    [][/\ (resp'.op = "create_person" /\ {"name", "document"} \subseteq DOMAIN resp'.request)
            => IF \E p \in people : p.document = resp'.request.document
               THEN resp'.status = 409 /\ people' = people
               ELSE /\ resp'.status = 201
                    /\ \E p \in people' :
                          /\ p.document = resp'.request.document
                          /\ p.name = resp'.request.name
                          /\ people' = people \cup {p}
       /\ \A p, q \in people' : p.document = q.document => p = q
      ]_vars

Codes(vs) == {v.code : v \in vs}

\* C18: POST /vaccines with a code not in the catalog is answered 201 and
\* adds a vaccine of that code, which with no allowed_doses given allows the
\* five labels; with a code in the catalog it is answered 409 and leaves the
\* catalog unchanged; GET /vaccines lists the codes of the catalog, a vaccine
\* leaves the catalog only by DELETE, and no two vaccines share a code
C18_VaccineCodeUnique ==
    [][/\ resp'.op = "create_vaccine"
            => IF resp'.request.code \in Codes(vaccines)
               THEN resp'.status = 409 /\ vaccines' = vaccines
               ELSE /\ resp'.status = 201
                    /\ resp'.body.code = resp'.request.code
                    /\ \E v \in vaccines' :
                          /\ v \notin vaccines
                          /\ vaccines' = vaccines \cup {v}
                          /\ v.id = resp'.body.id
                          /\ v.code = resp'.request.code
                          /\ v.name = resp'.request.name
                          /\ "allowed_doses" \notin DOMAIN resp'.request
                               => /\ \A d \in DoseEnum : ensure_dose_allowed(v, d)
                                  /\ resp'.body.allowed_doses = DOSE_ORDER
       /\ resp'.op = "list_vaccines"
            => /\ resp'.status = 200
               /\ Len(resp'.body) = Cardinality(vaccines')
               /\ {resp'.body[i].code : i \in 1..Len(resp'.body)} = Codes(vaccines')
       /\ \A v \in vaccines :
            v \in vaccines' \/ (/\ resp'.op = "delete_vaccine"
                                /\ resp'.status = 204
                                /\ resp'.request = v.id)
       /\ \A v, w \in vaccines' : v.code = w.code => v = w
      ]_vars

\* a body was answered 409 for the code of a vaccine that was created with
\* no allowed_doses and allows the five labels
C18_Witness ==
    /\ resp.op = "create_vaccine"
    /\ resp.status = 409
    /\ \E v \in vaccines : /\ v.code = resp.request.code
                            /\ CreatedFrom(v, VaccineIn2)
                            /\ allowed_list(v).value = DOSE_ORDER

\* the stored allowed-set text is not an array of labels of the vocabulary
Unreadable(v) ==
    v.allowed_doses.json # "array" \/ ~(Range(v.allowed_doses.items) \subseteq DoseEnum)

\* C13: when a submission is validated against a vaccine, the vaccine's
\* effective allowed set is a subset of the five labels, and if its stored
\* text is unreadable the effective set is DOSE_ORDER: the submission is then
\* neither rejected with 422 nor answered with an error raised by the text
C13_CorruptFallsBack ==
    (resp.op = "create_vaccination" /\ "dose" \in DOMAIN resp.request)
      => \A v \in get(vaccines, resp.request.vaccine_id) :
            /\ Range(allowed_list(v).value) \subseteq DoseEnum
            /\ Unreadable(v) =>
                 /\ allowed_list(v) = [type |-> "list", value |-> DOSE_ORDER]
                 /\ resp.status = 201 \/ resp.detail \notin {"TypeError", "Dose nao permitida"}

\* request r takes the step, r being the only request to change
Acts(r) ==
    \/ req'[r] # req[r]
    \/ req[r].pc = "idle" /\ resp'.op = "create_vaccination" /\ req' = req

\* the candidate as far as the request has read it when the step is taken
Candidate(r) == IF resp'.op = "none" THEN req'[r] ELSE resp'.request

\* the decision of the gate at position pc, from the candidate and the tables
Verdict(pc, cand) ==
    IF pc = "idle"
    THEN (IF get(people, cand.person_id) = {} THEN "NotFound" ELSE "pass")
    ELSE IF pc = "vaccine"
    THEN (IF get(vaccines, cand.vaccine_id) = {} THEN "NotFound"
          ELSE IF \E v \in get(vaccines, cand.vaccine_id) : cand.dose \notin Configured(v)
          THEN "DoseNotAllowed"
          ELSE "pass")
    ELSE IF pc = "order"
    THEN (IF /\ cand.enforce_sequence
             /\ ~(Prior(cand.dose) \subseteq OnFile(cand.person_id, cand.vaccine_id))
          THEN "SequenceViolation"
          ELSE "pass")
    ELSE (IF \E x \in vaccinations : SameTriple(x, cand) THEN "DuplicateDose" ELSE "pass")

\* what the step answered
Outcome ==
    IF resp'.op = "none" THEN "pass"
    ELSE IF resp'.status = 201 THEN "Accept"
    ELSE IF resp'.status = 404 THEN "NotFound"
    ELSE IF resp'.status = 422 THEN "DoseNotAllowed"
    ELSE IF resp'.detail = "Ordem invalida" THEN "SequenceViolation"
    ELSE IF resp'.detail = "Dose ja registrada" THEN "DuplicateDose"
    ELSE "error"

\* C12: a submission rejected with 404, 422 or 409 leaves people, vaccines
\* and vaccinations as they were, and what each gate answers is the function
\* Verdict of the candidate, enforce_sequence, the catalog and the history
C12_ValidationIsPure ==
    [][/\ (resp'.op = "create_vaccination" /\ resp'.status \in {404, 422, 409})
            => UNCHANGED <<people, vaccines, vaccinations>>
       /\ \A r \in Reqs :
            (Acts(r) /\ req[r].pc # "insert")
              => /\ Outcome = Verdict(req[r].pc, Candidate(r))
                 /\ UNCHANGED <<people, vaccines, vaccinations>>
      ]_vars

\* a candidate with a missing prior dose was rejected while records are stored
C12_Witness ==
    /\ resp.op = "create_vaccination"
    /\ resp.status = 409
    /\ resp.detail = "Ordem invalida"
    /\ resp.requires = "D2"
    /\ vaccinations # {}

\* some condition of acceptance fails for the candidate, as far as it was read
NotAdmissible(c) ==
    \/ get(people, c.person_id) = {}
    \/ /\ "vaccine_id" \in DOMAIN c
       /\ \/ get(vaccines, c.vaccine_id) = {}
          \/ \E v \in get(vaccines, c.vaccine_id) : c.dose \notin Configured(v)
    \/ /\ "enforce_sequence" \in DOMAIN c
       /\ \/ c.enforce_sequence
             /\ ~(Prior(c.dose) \subseteq OnFile(c.person_id, c.vaccine_id))
          \/ \E x \in vaccinations : SameTriple(x, c)

\* C19: an accepted submission adds one record, of the candidate's triple,
\* and changes no stored record, person or vaccine; no step changes a stored
\* record; a submission is refused only if its person or vaccine is missing,
\* its dose is not allowed or is on file, or under enforce_sequence=true a
\* prior label is not on file
C19_AcceptAddsOneRecord ==
    [][/\ (resp'.op = "create_vaccination" /\ resp'.status = 201)
            => /\ resp'.body \notin vaccinations
               /\ vaccinations' = vaccinations \cup {resp'.body}
               /\ SameTriple(resp'.body, resp'.request)
               /\ people' = people
               /\ vaccines' = vaccines
       /\ \A x \in vaccinations' :
            (\E y \in vaccinations : y.id = x.id) => x \in vaccinations
       /\ (resp'.op = "create_vaccination" /\ resp'.status # 201)
            => NotAdmissible(resp'.request)
      ]_vars

\* a second dose was accepted and the first is still stored
C19_Witness ==
    /\ resp.op = "create_vaccination"
    /\ resp.status = 201
    /\ resp.body.dose = "D2"
    /\ \E x \in vaccinations : SameTriple(x, [resp.body EXCEPT !.dose = "D1"])

\* the records a list shows: id, dose, vaccine and date of every entry
ListRecords(body) ==
    UNION {{[record_id |-> body.vaccines[b].entries[e].record_id,
             dose |-> body.vaccines[b].entries[e].dose,
             vaccine_id |-> body.vaccines[b].vaccine_id,
             applied_at |-> body.vaccines[b].entries[e].applied_at] :
               e \in 1..Len(body.vaccines[b].entries)} :
             b \in 1..Len(body.vaccines)}

\* the records a matrix shows: id, dose, vaccine and date of every filled cell
MatrixRecords(body) ==
    UNION {{[record_id |-> cell.record_id, dose |-> cell.dose,
             vaccine_id |-> body.cols[c].vaccine_id, applied_at |-> cell.applied_at] :
               cell \in body.grid[r][c]} :
             <<r, c>> \in (1..Len(body.grid)) \X (1..Len(body.cols))}

\* C14: the list and the matrix of a person in one state show the same
\* records: the card returned in one format shows the records that every
\* card the other format may return in that state shows
C14_ViewsEquivalent ==
    /\ Card("list") =>
         \A vs \in order_by_name(vaccines), q \in Rows(Mine) :
            MatrixRecords(CardMatrixOut(vs, q)) = ListRecords(resp.body)
    /\ Card("matrix") =>
         \A p \in get(people, resp.request.pid), q \in order_by_applied_at(Mine) :
            ListRecords(CardListOut(p, q)) = MatrixRecords(resp.body)

\* a card of two records of two vaccines, after a record was deleted and
\* another submitted
C14_Witness ==
    /\ Card("list")
    /\ Cardinality(ListRecords(resp.body)) = 2
    /\ Len(resp.body.vaccines) = 2
    /\ \E x \in Mine : x.id = "x1" /\ x.dose = "D2"

\* C15: the rows of the matrix are D1, D2, D3, R1, R2 in that order, and the
\* columns are the vaccines of the catalog, each once with its name, in
\* ascending order of name, with or without records of the person
C15_MatrixRowsAndCols ==
    Card("matrix") =>
        LET b == resp.body
        IN /\ b.rows = <<"D1", "D2", "D3", "R1", "R2">>
           /\ Len(b.cols) = Cardinality(vaccines)
           /\ \A v \in vaccines : \E c \in 1..Len(b.cols) :
                 b.cols[c] = [vaccine_id |-> v.id, vaccine_name |-> v.name]
           /\ \A c, d \in 1..Len(b.cols) :
                 c < d => NameRank(b.cols[c].vaccine_name) <= NameRank(b.cols[d].vaccine_name)

\* the vaccine created second comes first by name, and the person has no
\* record of the vaccine of the last column
C15_Witness ==
    /\ Card("matrix")
    /\ Len(resp.body.cols) = 2
    /\ resp.body.cols[1].vaccine_id = "v2"
    /\ \A x \in Mine : x.vaccine_id # resp.body.cols[2].vaccine_id
    /\ \E v \in vaccines : Configured(v) # DoseEnum

\* C16: in every block of the list the entries are in ascending order of
\* applied date, whatever the order in which they were submitted
C16_EntriesByAppliedAt ==
    Card("list") =>
        \A b \in 1..Len(resp.body.vaccines) :
            LET entries == resp.body.vaccines[b].entries
            IN \A e, f \in 1..Len(entries) :
                 e < f => entries[e].applied_at <= entries[f].applied_at

\* D2, submitted under enforce_sequence=false with an earlier date than D1,
\* comes before D1 in the block
C16_Witness ==
    /\ Card("list")
    /\ Len(resp.body.vaccines) = 1
    /\ Len(resp.body.vaccines[1].entries) = 2
    /\ resp.body.vaccines[1].entries[1].dose = "D2"
    /\ resp.body.vaccines[1].entries[2].dose = "D1"
    /\ resp.body.vaccines[1].entries[1].applied_at < resp.body.vaccines[1].entries[2].applied_at

\* the allowed set of vaccine v omits a label that precedes dose in the
\* global order
Skips(v, dose) == \E L \in Prior(dose) : L \notin Configured(v)

C21_PrefixOfGlobalOrder ==
    \A x \in vaccinations : Prior(x.dose) \subseteq OnFile(x.person_id, x.vaccine_id)

\* a second dose was accepted, the first being on file, while another
\* submission has passed its gates and waits to insert
C21_Witness ==
    /\ resp.op = "create_vaccination"
    /\ resp.status = 201
    /\ resp.body.dose = "D2"
    /\ OnFile(resp.body.person_id, resp.body.vaccine_id) = {"D1", "D2"}
    /\ \E r \in Reqs : req[r].pc = "insert"

====
